---- MODULE Spec2Model ----
(***************************************************************************)
(* A model of s3_abstraction.py (dir_sizer): the S3 Inventory              *)
(* configuration selector, the inventory report reader, the single-bucket  *)
(* scan and the scan of all buckets.                                       *)
(*                                                                         *)
(* Python strings whose characters matter (prefixes, keys, folder names)   *)
(* are sequences of one-character strings; enumeration-like strings        *)
(* ("CSV", "Daily", storage classes, regions) are TLA+ strings.            *)
(***************************************************************************)
EXTENDS Integers, Sequences, FiniteSets, TLC

VARIABLES
    \* ---- get_bucket_inventory, first half: the selector
    invConfigs,      \* InventoryConfigurationList of the bucket, all pages, API order
    required_fields, \* the required optional fields
    selPrefix,       \* the requested scan prefix
    config,          \* the selected configuration (None before / when none)
    selPc,           \* "start" | "selected" | "error"
    \* ---- get_bucket_inventory, second half: the report reader
    rdConfigId,      \* config['Id'] of the selected configuration
    inv_prefix,      \* report folder prefix <destPrefix>/<bucket>/<id>/
    commonPrefixes,  \* CommonPrefixes under inv_prefix, S3 (lexicographic) order
    manifestState,   \* environment: outcome of get_object for each manifest key
    reports,         \* manifest keys of the candidate batches, listing order
    rdIdx,           \* position in reports[::-1] (1-based), next to try
    fetchLog,        \* history: manifest keys fetched so far, in order
    found,           \* the found flag
    files,           \* per data file of the fetched manifest, rows still unread
    rowsYielded,     \* rows yielded by the generator so far
    rdError,         \* "" | "NoInventoryData:<id>" marker | the client error code
    rdPc,            \* "list" | "loop" | "rows" | "done" | "error"
    \* ---- scan_folder, single bucket (lines 298-324), with s3_list_objects
    s3_cost,         \* opts['s3_cost']
    s3_prefix,       \* opts['s3_prefix']
    locationConstraint, \* environment: LocationConstraint of the bucket
    pages,           \* environment: the pages of list_objects_v2
    location,        \* the bucket's region, None without --cost
    costs,           \* storage class -> price per GiB, None without --cost
    scPage,          \* the page being read (1-based)
    scIdx,           \* the next entry of its Contents (1-based)
    yielded,         \* history: the (key segments, size) pairs yielded so far
    total_objects,
    total_size,
    scError,
    scPc,            \* "start" | "loop" | "done" | "error"
    \* ---- scan_folder, all buckets (lines 326-445); it shares s3_cost,
    \* yielded, total_objects, total_size and scError with the above
    s3_profile,      \* opts.get("s3_profile", ""), the characters
    owned,           \* environment: profile -> names of list_buckets()
    cwView,          \* environment: what CloudWatch holds for each bucket
    profile,         \* the loop variable of line 329
    buckets,         \* buckets[profile][location], both in insertion order
    stats,           \* stats[bucket], in insertion order
    metricCalls,     \* history: the calls of get_metric_data
    finalizeLog,     \* history: every write of _count/_size
    abPc             \* "profiles" | "client" | "done" | "error"

selVars == <<invConfigs, required_fields, selPrefix, config, selPc>>
rdVars == <<rdConfigId, inv_prefix, commonPrefixes, manifestState, reports, rdIdx,
            fetchLog, found, files, rowsYielded, rdError, rdPc>>
scVars == <<s3_cost, s3_prefix, locationConstraint, pages, location, costs, scPage,
            scIdx, yielded, total_objects, total_size, scError, scPc>>
abVars == <<s3_profile, owned, cwView, profile, buckets, stats, metricCalls,
            finalizeLog, abPc>>
vars == <<selVars, rdVars, scVars, abVars>>

None == [none |-> TRUE]
NoError == [type |-> "none"]
\* the value None of a variable that otherwise holds a string
NoneStr == "<None>"

(***************************************************************************)
(* Strings as character sequences.                                         *)
(***************************************************************************)
\* str.startswith
StartsWith(s, p) == Len(p) <= Len(s) /\ SubSeq(s, 1, Len(p)) = p

SeqToSet(s) == { s[i] : i \in 1..Len(s) }

\* s[n:]
DropFirst(s, n) == SubSeq(s, n + 1, Len(s))

S_empty == <<>>
S_data == <<"d", "a", "t", "a", "/">>
S_data_sub == <<"d", "a", "t", "a", "/", "s", "u", "b", "/">>
S_logs == <<"l", "o", "g", "s", "/">>

(***************************************************************************)
(* The selector: get_bucket_inventory, lines 156-201.                      *)
(***************************************************************************)
\* list_bucket_inventory_configurations: only the enabled configurations,
\* in API order (the pages are concatenated).
list_bucket_inventory_configurations(cfgs) ==
    SelectSeq(cfgs, LAMBDA cur : cur.IsEnabled)

ConfigValidNoFieldCheck(cur, req, prefix) ==
    /\ cur.Format = "CSV"
    /\ StartsWith(prefix, cur.Prefix)

\* The valid flag of the filtering loop.
ConfigValid(cur, req, prefix) ==
    /\ cur.Format = "CSV"
    /\ Cardinality(cur.OptionalFields \cap req) = Cardinality(req)
    /\ StartsWith(prefix, cur.Prefix)

possible_configs(cfgs, req, prefix) ==
    SelectSeq(list_bucket_inventory_configurations(cfgs),
              LAMBDA cur : ConfigValid(cur, req, prefix))

SortKeyShortPrefixFirst(x) ==
    << Len(x.Prefix),
       IF x.Frequency = "Daily" THEN 1 ELSE 2,
       IF x.IncludedObjectVersions = "Current" THEN 1 ELSE 2,
       -Cardinality(x.OptionalFields) >>

\* The key of possible_configs.sort.
SortKey(x) ==
    << -Len(x.Prefix),
       IF x.Frequency = "Daily" THEN 1 ELSE 2,
       IF x.IncludedObjectVersions = "Current" THEN 1 ELSE 2,
       -Cardinality(x.OptionalFields) >>

\* Python's tuple comparison a < b on tuples of equal length.
RECURSIVE TupleLess(_, _)
TupleLess(a, b) ==
    IF Len(a) = 0 THEN FALSE
    ELSE IF Head(a) < Head(b) THEN TRUE
    ELSE IF Head(a) > Head(b) THEN FALSE
    ELSE TupleLess(Tail(a), Tail(b))

\* list.sort(key=...) is stable: x goes after every element whose key is
\* not greater than its own.
RECURSIVE InsertSorted(_, _)
InsertSorted(sorted, x) ==
    IF sorted = <<>> THEN <<x>>
    ELSE IF TupleLess(SortKey(x), SortKey(Head(sorted)))
         THEN <<x>> \o sorted
         ELSE <<Head(sorted)>> \o InsertSorted(Tail(sorted), x)

RECURSIVE SortConfigs(_)
SortConfigs(s) ==
    IF s = <<>> THEN <<>>
    ELSE InsertSorted(SortConfigs(SubSeq(s, 1, Len(s) - 1)), s[Len(s)])

\* ---- the inputs of the selector
MaxConfigs == 2

FieldSets == { {"Size", "StorageClass"}, {"Size", "StorageClass", "ETag"} }
FilterPrefixes == { S_empty, S_data, S_data_sub }

RankedConfigs ==
    [ IsEnabled : {TRUE}, Format : {"CSV"}, OptionalFields : FieldSets,
      Prefix : FilterPrefixes, Frequency : {"Daily", "Weekly"},
      IncludedObjectVersions : {"Current", "All"} ]

\* Configurations that the filter may reject, each of them otherwise first
\* in the sort order.
OtherConfigs ==
    { [ IsEnabled |-> FALSE, Format |-> "CSV", OptionalFields |-> {"Size"},
        Prefix |-> S_data_sub, Frequency |-> "Daily",
        IncludedObjectVersions |-> "Current" ],
      [ IsEnabled |-> TRUE, Format |-> "Parquet", OptionalFields |-> {"Size"},
        Prefix |-> S_data_sub, Frequency |-> "Daily",
        IncludedObjectVersions |-> "Current" ],
      [ IsEnabled |-> TRUE, Format |-> "CSV", OptionalFields |-> {"Size"},
        Prefix |-> S_data_sub, Frequency |-> "Daily",
        IncludedObjectVersions |-> "Current" ],
      [ IsEnabled |-> TRUE, Format |-> "CSV", OptionalFields |-> {"ETag", "StorageClass"},
        Prefix |-> S_data_sub, Frequency |-> "Daily",
        IncludedObjectVersions |-> "Current" ],
      [ IsEnabled |-> TRUE, Format |-> "CSV", OptionalFields |-> {"Size", "StorageClass"},
        Prefix |-> S_logs, Frequency |-> "Daily",
        IncludedObjectVersions |-> "Current" ] }

ConfigUniverse == RankedConfigs \cup OtherConfigs

ConfigLists == UNION { [1..n -> ConfigUniverse] : n \in 0..MaxConfigs }

\* s3_list_objects: required_fields is {"Size"}, plus "StorageClass" with --cost.
RequiredFieldSets == { {"Size"}, {"Size", "StorageClass"} }

SelIdle ==
    /\ invConfigs = <<>>
    /\ required_fields = {}
    /\ selPrefix = <<>>
    /\ config = None
    /\ selPc = "idle"

RdIdle ==
    /\ rdConfigId = ""
    /\ inv_prefix = <<>>
    /\ commonPrefixes = <<>>
    /\ manifestState = <<>>
    /\ reports = <<>>
    /\ rdIdx = 0
    /\ fetchLog = <<>>
    /\ found = FALSE
    /\ files = <<>>
    /\ rowsYielded = 0
    /\ rdError = NoError
    /\ rdPc = "idle"

ScIdle ==
    /\ s3_cost = FALSE
    /\ s3_prefix = <<>>
    /\ locationConstraint = "None"
    /\ pages = <<>>
    /\ location = NoneStr
    /\ costs = None
    /\ scPage = 0
    /\ scIdx = 0
    /\ yielded = <<>>
    /\ total_objects = 0
    /\ total_size = 0
    /\ scError = NoError
    /\ scPc = "idle"

AbIdle ==
    /\ s3_profile = <<>>
    /\ owned = <<>>
    /\ cwView = <<>>
    /\ profile = NoneStr
    /\ buckets = <<>>
    /\ stats = <<>>
    /\ metricCalls = <<>>
    /\ finalizeLog = <<>>
    /\ abPc = "idle"

SelInit ==
    /\ invConfigs \in ConfigLists
    /\ required_fields \in RequiredFieldSets
    /\ selPrefix \in FilterPrefixes
    /\ config = None
    /\ selPc = "start"
    /\ RdIdle
    /\ ScIdle
    /\ AbIdle

\* Lines 158-201: filter, sort, take possible_configs[0], or raise.
SelectConfig ==
    /\ selPc = "start"
    /\ LET possible == possible_configs(invConfigs, required_fields, selPrefix)
       IN IF Len(possible) > 0
          THEN /\ config' = SortConfigs(possible)[1]
               /\ selPc' = "selected"
          ELSE /\ config' = None
               /\ selPc' = "error"
    /\ UNCHANGED <<invConfigs, required_fields, selPrefix, rdVars, scVars, abVars>>

SelNext == SelectConfig

SpecSel == SelInit /\ [][SelNext]_vars

(***************************************************************************)
(* The report reader: get_bucket_inventory, lines 203-256.                 *)
(***************************************************************************)
\* The characters used, in ascending code point order (S3 lists keys in
\* UTF-8 binary order).
CodeOrder ==
    << "-", ".", "/", "0", "1", "2", "3", "4", "5", "6", "7", "8", "9", "T", "Z",
       "a", "b", "c", "d", "e", "f", "h", "i", "j", "l", "m", "n", "o", "s",
       "t", "u", "v", "z" >>

Ord(c) == CHOOSE i \in 1..Len(CodeOrder) : CodeOrder[i] = c

IsDigit(c) == c \in {"0", "1", "2", "3", "4", "5", "6", "7", "8", "9"}

\* Binary string order a < b.
RECURSIVE LexLess(_, _)
LexLess(a, b) ==
    IF b = <<>> THEN FALSE
    ELSE IF a = <<>> THEN TRUE
    ELSE IF Ord(Head(a)) < Ord(Head(b)) THEN TRUE
    ELSE IF Ord(Head(a)) > Ord(Head(b)) THEN FALSE
    ELSE LexLess(Tail(a), Tail(b))

RECURSIVE SortedKeys(_)
SortedKeys(S) ==
    IF S = {} THEN <<>>
    ELSE LET least == CHOOSE x \in S : \A y \in S \ {x} : LexLess(x, y)
         IN <<least>> \o SortedKeys(S \ {least})

\* "[0-9]{4}-[0-9]{2}-[0-9]{2}T[0-9]{2}-[0-9]{2}Z/$": "D" stands for [0-9].
ReportFolderPattern ==
    << "D", "D", "D", "D", "-", "D", "D", "-", "D", "D", "T",
       "D", "D", "-", "D", "D", "Z", "/" >>

\* The characters of s before position end (exclusive) end in the shape of
\* the pattern.
ShapeEndsAt(s, end) ==
    /\ end - 1 >= Len(ReportFolderPattern)
    /\ LET off == end - 1 - Len(ReportFolderPattern)
       IN \A i \in 1..Len(ReportFolderPattern) :
             IF ReportFolderPattern[i] = "D"
             THEN IsDigit(s[off + i])
             ELSE s[off + i] = ReportFolderPattern[i]

\* re.search(pattern, s) is not None: the pattern ends in $, which matches
\* at the end of s and also just before a newline that is the last
\* character of s.
MatchesPattern(s) ==
    \/ ShapeEndsAt(s, Len(s) + 1)
    \/ Len(s) >= 1 /\ s[Len(s)] = "\n" /\ ShapeEndsAt(s, Len(s))

S_manifest == <<"m", "a", "n", "i", "f", "e", "s", "t", ".", "j", "s", "o", "n">>

\* Lines 212-218: the manifest keys of the folders that look like a report.
RECURSIVE ReportKeys(_)
ReportKeys(prefixes) ==
    IF prefixes = <<>> THEN <<>>
    ELSE (IF MatchesPattern(Head(prefixes))
          THEN << Head(prefixes) \o S_manifest >>
          ELSE <<>>) \o ReportKeys(Tail(prefixes))

SameOrder(s) == s

\* reports[::-1]
Reversed(s) == [i \in 1..Len(s) |-> s[Len(s) + 1 - i]]

\* Lines 204-209: <destination prefix>/<bucket>/<config id>/
InvPrefix(destPrefix, bucket, id) ==
    (IF Len(destPrefix) > 0 THEN destPrefix \o <<"/">> ELSE <<>>)
        \o bucket \o <<"/">> \o id \o <<"/">>

\* The outcome of s3.get_object for a manifest key: a key nobody wrote is
\* NoSuchKey.
FetchOutcome(key) ==
    IF key \in DOMAIN manifestState THEN manifestState[key] ELSE "NoSuchKey"

\* ---- the inputs of the reader
Stamp_2023_12_31 ==
    << "2", "0", "2", "3", "-", "1", "2", "-", "3", "1", "T",
       "2", "3", "-", "5", "9", "Z", "/" >>
Stamp_2024_01_01 ==
    << "2", "0", "2", "4", "-", "0", "1", "-", "0", "1", "T",
       "0", "0", "-", "0", "0", "Z", "/" >>
Stamp_2024_01_02 ==
    << "2", "0", "2", "4", "-", "0", "1", "-", "0", "2", "T",
       "1", "4", "-", "3", "0", "Z", "/" >>
\* not a report folder: no Z
NoZone_2024_01_03 ==
    << "2", "0", "2", "4", "-", "0", "1", "-", "0", "3", "T",
       "0", "0", "-", "0", "0", "/" >>
S_data_folder == <<"d", "a", "t", "a", "/">>
S_hive_folder == <<"h", "i", "v", "e", "/">>

BatchFolders == { Stamp_2023_12_31, Stamp_2024_01_01, Stamp_2024_01_02 }
AuxFolders == { NoZone_2024_01_03, S_data_folder, S_hive_folder }
FolderUniverse == BatchFolders \cup AuxFolders

DestPrefixes == { <<>>, <<"i", "n", "v">> }
BucketName == <<"b">>
ConfigIds == { <<"c", "1">>, <<"c", "2">> }

Outcomes == { "ok", "NoSuchKey", "AccessDenied" }

\* rows per data file of a manifest
FileShapes == { <<>>, <<0>>, <<2>>, <<1, 0, 1>> }

RdInit ==
    /\ SelIdle
    /\ ScIdle
    /\ AbIdle
    /\ rdConfigId \in ConfigIds
    /\ \E dp \in DestPrefixes : inv_prefix = InvPrefix(dp, BucketName, rdConfigId)
    /\ \E listed \in SUBSET FolderUniverse :
          commonPrefixes = SortedKeys({ inv_prefix \o f : f \in listed })
    /\ manifestState \in
          [ { inv_prefix \o f \o S_manifest : f \in BatchFolders } -> Outcomes ]
    /\ reports = <<>>
    /\ rdIdx = 0
    /\ fetchLog = <<>>
    /\ found = FALSE
    /\ files = <<>>
    /\ rowsYielded = 0
    /\ rdError = NoError
    /\ rdPc = "list"

\* Lines 211-220: list the report folders.
ListReports ==
    /\ rdPc = "list"
    /\ reports' = ReportKeys(commonPrefixes)
    /\ rdIdx' = 1
    /\ rdPc' = "loop"
    /\ UNCHANGED <<selVars, scVars, abVars, rdConfigId, inv_prefix, commonPrefixes, manifestState,
                   fetchLog, found, files, rowsYielded, rdError>>

\* Lines 222-241: one iteration of "for report in reports[::-1]" up to the
\* schema of the manifest.
FetchManifest ==
    /\ rdPc = "loop"
    /\ rdIdx <= Len(reports)
    /\ LET report == Reversed(reports)[rdIdx]
           outcome == FetchOutcome(report)
       IN /\ fetchLog' = Append(fetchLog, report)
          /\ IF outcome = "ok"
             THEN /\ found' = TRUE
                  /\ \E shape \in FileShapes : files' = shape
                  /\ rdPc' = "rows"
                  /\ UNCHANGED <<rdIdx, rdError>>
             ELSE IF outcome = "NoSuchKey"
             THEN /\ rdIdx' = rdIdx + 1
                  /\ UNCHANGED <<found, files, rdPc, rdError>>
             ELSE /\ rdError' = [type |-> outcome]
                  /\ rdPc' = "error"
                  /\ UNCHANGED <<found, files, rdIdx>>
    /\ UNCHANGED <<selVars, scVars, abVars, rdConfigId, inv_prefix, commonPrefixes, manifestState,
                   reports, rowsYielded>>

\* Lines 242-250: the next row of the data files is yielded.
YieldRow ==
    /\ rdPc = "rows"
    /\ \E k \in 1..Len(files) :
          /\ files[k] > 0
          /\ \A j \in 1..(k - 1) : files[j] = 0
          /\ files' = [files EXCEPT ![k] = @ - 1]
    /\ rowsYielded' = rowsYielded + 1
    /\ UNCHANGED <<selVars, scVars, abVars, rdConfigId, inv_prefix, commonPrefixes, manifestState,
                   reports, rdIdx, fetchLog, found, rdError, rdPc>>

\* Line 244: get_object of a data file fails; the error propagates.
DataFileFails ==
    /\ rdPc = "rows"
    /\ Len(files) > 0
    /\ rdError' = [type |-> "AccessDenied"]
    /\ rdPc' = "error"
    /\ UNCHANGED <<selVars, scVars, abVars, rdConfigId, inv_prefix, commonPrefixes, manifestState,
                   reports, rdIdx, fetchLog, found, files, rowsYielded>>

FinishReportsNoCheck ==
    /\ \/ rdPc = "rows" /\ \A k \in 1..Len(files) : files[k] = 0
       \/ rdPc = "loop" /\ rdIdx > Len(reports)
    /\ rdPc' = "done"
    /\ UNCHANGED <<selVars, scVars, abVars, rdConfigId, inv_prefix, commonPrefixes, manifestState,
                   reports, rdIdx, fetchLog, found, files, rowsYielded, rdError>>

\* Lines 252-256: the break after the report, or the end of the loop, then
\* the check of found.
FinishReports ==
    /\ \/ rdPc = "rows" /\ \A k \in 1..Len(files) : files[k] = 0
       \/ rdPc = "loop" /\ rdIdx > Len(reports)
    /\ IF found
       THEN rdPc' = "done" /\ UNCHANGED rdError
       ELSE /\ rdError' = [type |-> "NoInventoryData", id |-> rdConfigId]
            /\ rdPc' = "error"
    /\ UNCHANGED <<selVars, scVars, abVars, rdConfigId, inv_prefix, commonPrefixes, manifestState,
                   reports, rdIdx, fetchLog, found, files, rowsYielded>>

RdNext == ListReports \/ FetchManifest \/ YieldRow \/ DataFileFails \/ FinishReports

SpecRd == RdInit /\ [][RdNext]_vars

(***************************************************************************)
(* Quantities.  A byte count can reach 2^31 and a cost is a fraction of     *)
(* GiB, so a quantity is a natural number written with two digits in base   *)
(* GiB: hi * GiB + lo.  A size is that many bytes; a cost is kept exactly,  *)
(* as the numerator bytes * price of the fraction over GiB * PriceScale.    *)
(***************************************************************************)
GiB == 1073741824

\* Prices are kept in 1/PriceScale of a dollar per GiB (0.023 is 23).
PriceScale == 1000

Big(hi, lo) == [hi |-> hi, lo |-> lo]
Zero == Big(0, 0)

\* The additions of lines 320-321 of the single-bucket scan, whose objects
\* come in the order of the listing.  Without --cost they are int
\* additions; with --cost the code adds floats and this is the exact sum of
\* the numerators.
BigAdd(a, b) ==
    LET l == a.lo + b.lo
    IN Big(a.hi + b.hi + (l \div GiB), l % GiB)

RECURSIVE BigTimes(_, _)
BigTimes(a, n) == IF n = 0 THEN Zero ELSE BigAdd(a, BigTimes(a, n - 1))

BigIsZero(a) == a.hi = 0 /\ a.lo = 0

CostWholeGiBOnly(size, price) == Big(size.hi * price, 0)

\* (<size> / 1073741824) * <price per GiB>, line 319.
Cost(size, price) == BigTimes(size, price)

(***************************************************************************)
(* Pricing: aws_constants.S3_COST_CLASSES and s3_pricing_data.json.        *)
(***************************************************************************)
S3_COST_CLASSES ==
    << [s3 |-> "STANDARD", cw |-> "StandardStorage", desc |-> "Standard"],
       [s3 |-> "GLACIER", cw |-> "GlacierStorage", desc |-> "Glacier"] >>

\* load_pricing_data(): region -> description -> price per GiB.
PricingData ==
    [ r \in {"us-east-1", "eu-west-1", "eu-central-1"} |->
        IF r = "eu-central-1"
        THEN [d \in {"Standard", "Glacier"} |-> IF d = "Standard" THEN 25 ELSE 5]
        ELSE [d \in {"Standard", "Glacier"} |-> IF d = "Standard" THEN 23 ELSE 4] ]

\* Line 125: us-east-1 and eu-west-1 are reported as None and 'EU'.
get_bucket_location(constraint) ==
    IF constraint = "None" THEN "us-east-1"
    ELSE IF constraint = "EU" THEN "eu-west-1"
    ELSE constraint

CostsWithDefaultPrice(loc) ==
    [ c \in {"STANDARD", "GLACIER", "OUTPOSTS"} |->
        IF c = "STANDARD" THEN PricingData[loc]["Standard"]
        ELSE IF c = "GLACIER" THEN PricingData[loc]["Glacier"]
        ELSE 0 ]

\* Line 308: {x['s3']: float(temp[location][x['desc']]) for x in S3_COST_CLASSES}
CostsByS3Class(loc) ==
    [ c \in { S3_COST_CLASSES[i].s3 : i \in 1..Len(S3_COST_CLASSES) } |->
        LET x == CHOOSE x \in SeqToSet(S3_COST_CLASSES) : x.s3 = c
        IN PricingData[loc][x.desc] ]

(***************************************************************************)
(* The single-bucket scan: scan_folder lines 298-324 over                  *)
(* s3_list_objects lines 278-291 (the list_objects_v2 source).             *)
(***************************************************************************)
\* str.split("/")
RECURSIVE Split(_)
Split(s) ==
    IF \A i \in 1..Len(s) : s[i] # "/" THEN <<s>>
    ELSE LET i == CHOOSE i \in 1..Len(s) :
                     s[i] = "/" /\ \A j \in 1..(i - 1) : s[j] # "/"
         IN <<SubSeq(s, 1, i - 1)>> \o Split(SubSeq(s, i + 1, Len(s)))

RecordKeepFullKey(cur, prefix_len) ==
    [Key |-> cur.Key, Size |-> cur.Size, StorageClass |-> cur.StorageClass]

\* Lines 287-291: the record made of an entry of page['Contents'].
Record(cur, prefix_len) ==
    [Key |-> DropFirst(cur.Key, prefix_len), Size |-> cur.Size,
     StorageClass |-> cur.StorageClass]

\* Lines 314-319: the size of a record (its cost with --cost).
SizeOfRecord(cur, loc, cst) ==
    IF loc = NoneStr THEN cur.Size ELSE Cost(cur.Size, cst[cur.StorageClass])

\* The paginator: consecutive pages of at most n keys; when nothing is
\* listed, a single page that has no 'Contents'.
RECURSIVE Paginate(_, _)
Paginate(objs, n) ==
    IF Len(objs) <= n THEN << [Contents |-> objs] >>
    ELSE << [Contents |-> SubSeq(objs, 1, n)] >> \o Paginate(DropFirst(objs, n), n)

ListObjectsV2(objs, n) ==
    IF objs = <<>> THEN << [KeyCount |-> 0] >> ELSE Paginate(objs, n)

\* ---- the inputs of the scan
MaxObjects == 3

S_a == <<"a">>
S_sub_b == <<"s", "u", "b", "/", "b">>
S_sub_ == <<"s", "u", "b", "/">>
S_z == <<"z">>
RelativeKeys == { S_a, S_sub_b, S_sub_, S_z }

\* (size, storage class) of a listed object
ObjectShapes ==
    { [Size |-> Big(0, 100), StorageClass |-> "STANDARD"],
      [Size |-> Big(0, 50), StorageClass |-> "GLACIER"],
      [Size |-> Big(1, 0), StorageClass |-> "STANDARD"],
      [Size |-> Big(2, 0), StorageClass |-> "STANDARD"],
      [Size |-> Big(1, 268435456), StorageClass |-> "GLACIER"],
      [Size |-> Big(0, 100), StorageClass |-> "OUTPOSTS"] }

ScanPrefixes == { S_empty, S_data }
LocationConstraints == { "None", "EU", "eu-central-1", "me-south-1" }
PageSizes == { 1, 2 }

\* The objects under prefix, in key order, each with a shape.
Listings(prefix) ==
    UNION { LET keys == SortedKeys({ prefix \o k : k \in ks })
            IN { [i \in 1..Len(keys) |->
                    [Key |-> keys[i], Size |-> sh[i].Size,
                     StorageClass |-> sh[i].StorageClass]] :
                 sh \in [1..Len(keys) -> ObjectShapes] } :
            ks \in { x \in SUBSET RelativeKeys : Cardinality(x) <= MaxObjects } }

ScInit ==
    /\ SelIdle
    /\ RdIdle
    /\ AbIdle
    /\ s3_cost \in BOOLEAN
    /\ s3_prefix \in ScanPrefixes
    /\ locationConstraint \in LocationConstraints
    /\ \E objs \in Listings(s3_prefix) : \E n \in PageSizes :
          pages = ListObjectsV2(objs, n)
    /\ location = NoneStr
    /\ costs = None
    /\ scPage = 1
    /\ scIdx = 1
    /\ yielded = <<>>
    /\ total_objects = 0
    /\ total_size = Zero
    /\ scError = NoError
    /\ scPc = "start"

\* Lines 302-311: with --cost, the region of the bucket and its prices.
ScanStart ==
    /\ scPc = "start"
    /\ IF s3_cost
       THEN LET loc == get_bucket_location(locationConstraint)
            IN /\ location' = loc
               /\ IF loc \notin DOMAIN PricingData
                  THEN /\ scError' = [type |-> "UnknownCostsForRegion", region |-> loc]
                       /\ scPc' = "error"
                       /\ UNCHANGED costs
                  ELSE /\ costs' = CostsByS3Class(loc)
                       /\ scPc' = "loop"
                       /\ UNCHANGED scError
       ELSE /\ location' = NoneStr
            /\ costs' = None
            /\ scPc' = "loop"
            /\ UNCHANGED scError
    /\ UNCHANGED <<selVars, rdVars, abVars, s3_cost, s3_prefix, locationConstraint, pages,
                   scPage, scIdx, yielded, total_objects, total_size>>

\* Line 286 on a page that has no 'Contents': KeyError.
ScanPageWithoutContents ==
    /\ scPc = "loop"
    /\ scPage <= Len(pages)
    /\ "Contents" \notin DOMAIN pages[scPage]
    /\ scError' = [type |-> "KeyError", key |-> "Contents"]
    /\ scPc' = "error"
    /\ UNCHANGED <<selVars, rdVars, abVars, s3_cost, s3_prefix, locationConstraint, pages,
                   location, costs, scPage, scIdx, yielded, total_objects, total_size>>

\* Lines 313-322 for the next listed object: its record, its size, the
\* totals and the yield; or the KeyError of costs[cur['StorageClass']].
ScanRecord ==
    /\ scPc = "loop"
    /\ scPage <= Len(pages)
    /\ "Contents" \in DOMAIN pages[scPage]
    /\ LET contents == pages[scPage].Contents
           cur == Record(contents[scIdx], Len(s3_prefix))
       IN IF location # NoneStr /\ cur.StorageClass \notin DOMAIN costs
          THEN /\ scError' = [type |-> "KeyError", key |-> cur.StorageClass]
               /\ scPc' = "error"
               /\ UNCHANGED <<scPage, scIdx, yielded, total_objects, total_size>>
          ELSE LET size == SizeOfRecord(cur, location, costs)
               IN /\ total_objects' = total_objects + 1
                  /\ total_size' = BigAdd(total_size, size)
                  /\ yielded' = Append(yielded, <<Split(cur.Key), size>>)
                  /\ IF scIdx < Len(contents)
                     THEN scIdx' = scIdx + 1 /\ UNCHANGED scPage
                     ELSE scIdx' = 1 /\ scPage' = scPage + 1
                  /\ UNCHANGED <<scError, scPc>>
    /\ UNCHANGED <<selVars, rdVars, abVars, s3_cost, s3_prefix, locationConstraint, pages,
                   location, costs>>

\* Line 445: the listing is exhausted.
ScanDone ==
    /\ scPc = "loop"
    /\ scPage > Len(pages)
    /\ scPc' = "done"
    /\ UNCHANGED <<selVars, rdVars, abVars, s3_cost, s3_prefix, locationConstraint, pages,
                   location, costs, scPage, scIdx, yielded, total_objects,
                   total_size, scError>>

ScNext == ScanStart \/ ScanPageWithoutContents \/ ScanRecord \/ ScanDone

SpecScan == ScInit /\ [][ScNext]_vars

(***************************************************************************)
(* The scan of all buckets: scan_folder lines 326-445.                     *)
(*                                                                         *)
(* get_profiles yields the profile name itself (the copy of opts that it   *)
(* fills in is dropped), and get_s3 takes its argument for the options: on *)
(* a str the lookups of get_s3 raise.  The scan ends at line 330 on its    *)
(* first profile, whatever the options, so that lines 331-445 never run;   *)
(* buckets keeps the value of line 327, and stats, the calls of            *)
(* get_metric_data and the writes of _count/_size stay empty.              *)
(***************************************************************************)
S_s3_endpoint == <<"s", "3", "_", "e", "n", "d", "p", "o", "i", "n", "t">>

\* sub in s, for str
Contains(s, sub) ==
    \E i \in 0..(Len(s) - Len(sub)) : SubSeq(s, i + 1, i + Len(sub)) = sub

\* s.split(sep) for a separator of one character
RECURSIVE SplitOn(_, _)
SplitOn(s, sep) ==
    IF \A i \in 1..Len(s) : s[i] # sep THEN <<s>>
    ELSE LET i == CHOOSE i \in 1..Len(s) :
                     s[i] = sep /\ \A j \in 1..(i - 1) : s[j] # sep
         IN <<SubSeq(s, 1, i - 1)>> \o SplitOn(SubSeq(s, i + 1, Len(s)), sep)

\* Lines 99-104: the values the generator yields, each of them cur.
get_profiles(value) == SplitOn(value, ",")

\* Lines 106-114 for opts a str: 's3_endpoint' in opts looks for the
\* substring and opts['s3_endpoint'] is then a TypeError; otherwise
\* opts.get is an AttributeError.
get_s3(opts) ==
    IF Contains(opts, S_s3_endpoint)
    THEN [raises |-> "TypeError"]
    ELSE [raises |-> "AttributeError"]

\* ---- the inputs of the scan of all buckets
S_p1 == <<"p", "1">>
S_p2 == <<"p", "2">>

\* The values of --profile: none, one profile, two profiles, and a profile
\* whose name holds the text s3_endpoint.
S3ProfileValues ==
    { <<>>, S_p1, S_p1 \o <<",">> \o S_p2, S_s3_endpoint \o <<",">> \o S_p1 }

\* The buckets there are, each with the LocationConstraint S3 reports.
BucketLocation ==
    [ b \in {"b1", "b2", "b3"} |-> IF b = "b3" THEN "me-south-1" ELSE "None" ]

\* start_date.strftime("%Y-%m-%d")
TargetDay == "2024-01-01"
OtherDay == "2024-01-02"

Point(day, value) == [day |-> day, value |-> value]

\* What CloudWatch may hold for a bucket: the datapoints of each metric.
BucketViews ==
    { \* 5 bytes and 2 objects
      [ st \in {"StandardStorage", "GlacierStorage", "AllStorageTypes"} |->
          IF st = "StandardStorage" THEN << Point(TargetDay, Big(0, 5)) >>
          ELSE IF st = "GlacierStorage" THEN << Point(OtherDay, Big(0, 7)) >>
          ELSE << Point(TargetDay, Big(0, 2)) >> ],
      \* nothing at all
      [ st \in {"StandardStorage", "GlacierStorage", "AllStorageTypes"} |-> <<>> ],
      \* 1 GiB and 2^29 bytes, and no object count on the target day
      [ st \in {"StandardStorage", "GlacierStorage", "AllStorageTypes"} |->
          IF st = "StandardStorage"
          THEN << Point(OtherDay, Big(0, 7)), Point(TargetDay, Big(1, 0)) >>
          ELSE IF st = "GlacierStorage" THEN << Point(TargetDay, Big(0, 536870912)) >>
          ELSE << Point(OtherDay, Big(0, 9)) >> ],
      \* 3 objects and no size
      [ st \in {"StandardStorage", "GlacierStorage", "AllStorageTypes"} |->
          IF st = "AllStorageTypes" THEN << Point(TargetDay, Big(0, 3)) >>
          ELSE <<>> ] }

AbInit ==
    /\ SelIdle
    /\ RdIdle
    /\ s3_prefix = <<>>
    /\ locationConstraint = "None"
    /\ pages = <<>>
    /\ location = NoneStr
    /\ scPage = 0
    /\ scIdx = 0
    /\ scPc = "idle"
    /\ s3_cost \in BOOLEAN
    /\ costs = None
    /\ yielded = <<>>
    /\ total_objects = Zero
    /\ total_size = Zero
    /\ scError = NoError
    /\ s3_profile \in S3ProfileValues
    /\ owned \in [SeqToSet(get_profiles(s3_profile)) -> SUBSET (DOMAIN BucketLocation)]
    /\ cwView \in [DOMAIN BucketLocation -> BucketViews]
    /\ profile = NoneStr
    /\ buckets = <<>>
    /\ stats = <<>>
    /\ metricCalls = <<>>
    /\ finalizeLog = <<>>
    /\ abPc = "profiles"

\* Line 329: the generator yields its first value.
NextProfile ==
    /\ abPc = "profiles"
    /\ profile' = get_profiles(s3_profile)[1]
    /\ abPc' = "client"
    /\ UNCHANGED <<selVars, rdVars, scVars, s3_profile, owned, cwView, buckets, stats,
                   metricCalls, finalizeLog>>

\* Line 330: get_s3(profile) raises on the str it is given.
ProfileClientFails ==
    /\ abPc = "client"
    /\ scError' = [type |-> get_s3(profile).raises]
    /\ abPc' = "error"
    /\ UNCHANGED <<selVars, rdVars, s3_cost, s3_prefix, locationConstraint, pages,
                   location, costs, scPage, scIdx, yielded, total_objects, total_size,
                   scPc, s3_profile, owned, cwView, profile, buckets, stats,
                   metricCalls, finalizeLog>>

AbNext == NextProfile \/ ProfileClientFails

SpecAll == AbInit /\ [][AbNext]_vars

(***************************************************************************)
(* Properties of the selector.                                             *)
(***************************************************************************)
\* What the specification asks of a configuration that may be chosen.
Eligible(c) ==
    /\ c.IsEnabled
    /\ c.Format = "CSV"
    /\ required_fields \subseteq c.OptionalFields
    /\ \E n \in 0..Len(selPrefix) : c.Prefix = SubSeq(selPrefix, 1, n)

InInput(c) == \E i \in 1..Len(invConfigs) : invConfigs[i] = c

\* C1: the configuration chosen by get_bucket_inventory is one of the input
\* configurations, is enabled, has format CSV, has every required field among
\* its OptionalFields, and its filter prefix is a prefix of the scan prefix.
C1_ChosenIsEligible ==
    selPc = "selected" => InInput(config) /\ Eligible(config)

\* A configuration was chosen while the input held a configuration that is
\* not eligible and that the sort would have put before the chosen one.
C1_Witness ==
    /\ selPc = "selected"
    /\ \E i \in 1..Len(invConfigs) :
          /\ ~Eligible(invConfigs[i])
          /\ TupleLess(SortKey(invConfigs[i]), SortKey(config))

\* C2: the chosen configuration has a filter prefix of maximal length among
\* the eligible configurations of the input, whatever their schedule,
\* versions mode, number of fields and position.
C2_LongestPrefixWins ==
    selPc = "selected" =>
        \A i \in 1..Len(invConfigs) :
            Eligible(invConfigs[i]) => Len(invConfigs[i].Prefix) <= Len(config.Prefix)

\* The chosen configuration has a longer prefix than an eligible one that
\* comes first in the input and beats it on schedule, versions and fields.
C2_Witness ==
    /\ selPc = "selected"
    /\ Len(invConfigs) = 2
    /\ config = invConfigs[2]
    /\ Eligible(invConfigs[1])
    /\ Len(invConfigs[1].Prefix) < Len(config.Prefix)
    /\ invConfigs[1].Frequency = "Daily" /\ config.Frequency = "Weekly"
    /\ invConfigs[1].IncludedObjectVersions = "Current"
    /\ config.IncludedObjectVersions = "All"
    /\ Cardinality(invConfigs[1].OptionalFields) # Cardinality(config.OptionalFields)

\* C3 (as claimed): among the eligible configurations that equal the chosen
\* one in prefix length, schedule class and versions mode, the chosen one has
\* the fewest optional fields.
C3_FewerFieldsWins ==
    selPc = "selected" =>
        \A i \in 1..Len(invConfigs) :
            ( /\ Eligible(invConfigs[i])
              /\ Len(invConfigs[i].Prefix) = Len(config.Prefix)
              /\ invConfigs[i].Frequency = config.Frequency
              /\ invConfigs[i].IncludedObjectVersions = config.IncludedObjectVersions )
            => Cardinality(config.OptionalFields) <= Cardinality(invConfigs[i].OptionalFields)

(***************************************************************************)
(* Properties of the report reader.                                        *)
(***************************************************************************)
DigitValue(c) == Ord(c) - Ord("0")

\* The time a report folder name YYYY-MM-DDTHH-MMZ/ stands for, in minutes.
StampMinutes(f) ==
    LET n2(i) == DigitValue(f[i]) * 10 + DigitValue(f[i + 1])
        year == n2(1) * 100 + n2(3)
    IN (((year * 12 + n2(6)) * 31 + n2(9)) * 24 + n2(12)) * 60 + n2(15)

\* The report batches of the listing: the folders under inv_prefix that are
\* named by a timestamp.
ListedBatches ==
    { f \in BatchFolders : \E i \in 1..Len(commonPrefixes) :
                               commonPrefixes[i] = inv_prefix \o f }

ManifestOf(f) == inv_prefix \o f \o S_manifest

Newest(S, f) == f \in S /\ \A g \in S : StampMinutes(g) <= StampMinutes(f)

NextOlder(f, g) ==
    /\ g \in ListedBatches
    /\ StampMinutes(g) < StampMinutes(f)
    /\ \A h \in ListedBatches :
          ~(StampMinutes(g) < StampMinutes(h) /\ StampMinutes(h) < StampMinutes(f))

LastOutcome == FetchOutcome(fetchLog[Len(fetchLog)])

\* C4: manifests are fetched newest first; each fetch after the first
\* follows a 'no such key' failure and is of exactly the next-older batch;
\* another error aborts with that error; neither after such an error nor
\* after a fetched manifest is a further manifest fetched.
C4_NewestToOldest ==
    /\ \A i \in 1..Len(fetchLog) :
          \E f \in ListedBatches :
             /\ fetchLog[i] = ManifestOf(f)
             /\ i = 1 => Newest(ListedBatches, f)
             /\ i > 1 => /\ FetchOutcome(fetchLog[i - 1]) = "NoSuchKey"
                         /\ \E e \in ListedBatches :
                               fetchLog[i - 1] = ManifestOf(e) /\ NextOlder(e, f)
    /\ (rdPc = "loop" /\ fetchLog = <<>> /\ ListedBatches # {})
          => ENABLED FetchManifest
    /\ fetchLog # <<>> =>
          /\ LastOutcome = "NoSuchKey" =>
                (ENABLED FetchManifest
                    <=> \E f \in ListedBatches :
                           \E e \in ListedBatches :
                              fetchLog[Len(fetchLog)] = ManifestOf(e) /\ NextOlder(e, f))
          /\ LastOutcome = "ok" => rdPc \in {"rows", "done", "error"}
          /\ LastOutcome \notin {"ok", "NoSuchKey"} =>
                rdPc = "error" /\ rdError = [type |-> LastOutcome]
          /\ LastOutcome # "NoSuchKey" => ~ENABLED FetchManifest

\* Three batches listed beside the auxiliary folders: the two newest
\* manifests are missing, the oldest was fetched and read to the end.
C4_Witness ==
    /\ Len(fetchLog) = 3
    /\ FetchOutcome(fetchLog[1]) = "NoSuchKey"
    /\ FetchOutcome(fetchLog[2]) = "NoSuchKey"
    /\ FetchOutcome(fetchLog[3]) = "ok"
    /\ Len(commonPrefixes) = Cardinality(FolderUniverse)
    /\ rdPc = "done"

NoFetchableManifest ==
    \A f \in ListedBatches : FetchOutcome(ManifestOf(f)) = "NoSuchKey"

\* C9: when no listed batch has a manifest that can be fetched, the reader
\* yields no row and can only end with NoInventoryData naming the
\* configuration id; folders not named by a timestamp are never fetched; and
\* once a manifest was fetched NoInventoryData is never raised, whatever the
\* manifest's files hold.
C9_NoInventoryData ==
    /\ NoFetchableManifest =>
          /\ rowsYielded = 0
          /\ rdPc \in {"list", "loop", "error"}
          /\ rdPc = "error" =>
                rdError = [type |-> "NoInventoryData", id |-> rdConfigId]
          /\ (rdPc = "loop" /\ Len(fetchLog) = Cardinality(ListedBatches))
                => ENABLED FinishReports /\ ~ENABLED FetchManifest
    /\ \A i \in 1..Len(fetchLog) : \E f \in ListedBatches : fetchLog[i] = ManifestOf(f)
    /\ (\E i \in 1..Len(fetchLog) : FetchOutcome(fetchLog[i]) = "ok")
          => /\ rdError.type # "NoInventoryData"
             /\ (rdPc = "rows" /\ \A k \in 1..Len(files) : files[k] = 0)
                   => ENABLED FinishReports

\* Two batches and the auxiliary folders are listed, both manifests are
\* missing, and the reader has failed with NoInventoryData.
C9_Witness ==
    /\ Cardinality(ListedBatches) = 2
    /\ Len(commonPrefixes) = 2 + Cardinality(AuxFolders)
    /\ NoFetchableManifest
    /\ Len(fetchLog) = 2
    /\ rdPc = "error"
    /\ rdError = [type |-> "NoInventoryData", id |-> rdConfigId]

(***************************************************************************)
(* Properties of the single-bucket scan.                                   *)
(***************************************************************************)
\* The listed objects, all pages in order.
RECURSIVE Flatten(_)
Flatten(pgs) ==
    IF pgs = <<>> THEN <<>>
    ELSE (IF "Contents" \in DOMAIN Head(pgs) THEN Head(pgs).Contents ELSE <<>>)
            \o Flatten(Tail(pgs))

AllObjects == Flatten(pages)

HasPrice(class) == \E i \in 1..Len(S3_COST_CLASSES) : S3_COST_CLASSES[i].s3 = class

PricingFailure ==
    \/ scError.type = "UnknownCostsForRegion"
    \/ scError.type = "KeyError" /\ scError.key # "Contents"

\* C6 (as claimed): a scan that failed for a missing region or storage
\* class price has yielded nothing.
C6_PricingFailsBeforeOutput ==
    (scPc = "error" /\ PricingFailure) => yielded = <<>>

\* C6 (amended): a region absent from the pricing table fails the scan
\* before any record is yielded; a record whose storage class has no price
\* fails the scan when it is reached, after exactly the records listed
\* before it were yielded, and a scan with --cost never ends normally past
\* such a record.
C6_PricingFailureAmended ==
    /\ (s3_cost /\ get_bucket_location(locationConstraint) \notin DOMAIN PricingData)
          => /\ yielded = <<>> /\ total_objects = 0
             /\ scPc \in {"start", "error"}
             /\ scPc = "error" => scError.type = "UnknownCostsForRegion"
    /\ scError.type = "UnknownCostsForRegion" => yielded = <<>>
    /\ (scError.type = "KeyError" /\ scError.key # "Contents") =>
          LET n == Len(yielded)
          IN /\ n < Len(AllObjects)
             /\ AllObjects[n + 1].StorageClass = scError.key
             /\ ~HasPrice(scError.key)
             /\ \A i \in 1..n : HasPrice(AllObjects[i].StorageClass)
    /\ s3_cost => \A i \in 1..Len(yielded) : HasPrice(AllObjects[i].StorageClass)
    /\ ~s3_cost => ~PricingFailure

\* The third listed object has no price; two records were yielded before
\* the scan failed on it.
C6_Witness ==
    /\ scPc = "error"
    /\ scError = [type |-> "KeyError", key |-> "OUTPOSTS"]
    /\ Len(yielded) = 2
    /\ Len(AllObjects) = 3

PriceOf(class) ==
    LET x == CHOOSE x \in SeqToSet(S3_COST_CLASSES) : x.s3 = class
    IN PricingData[get_bucket_location(locationConstraint)][x.desc]

\* size * price by long multiplication in base GiB (the low digits used
\* keep lo * price below 2^31).
Product(size, price) ==
    Big(size.hi * price + ((size.lo * price) \div GiB), (size.lo * price) % GiB)

\* C8: with --cost the value yielded for a record is size * price over
\* GiB * PriceScale, that is (size / 2^30) * price: 2^30 bytes at 0.023 give
\* 0.023 and 2^31 bytes of STANDARD at 0.023 give 0.046; without --cost it is
\* the size in bytes.
C8_CostConversion ==
    \A i \in 1..Len(yielded) :
        LET obj == AllObjects[i]
            value == yielded[i][2]
        IN IF s3_cost
           THEN /\ value = Product(obj.Size, PriceOf(obj.StorageClass))
                /\ (obj.Size = Big(1, 0) /\ PriceOf(obj.StorageClass) = 23)
                      => value = Big(23, 0)
                /\ (obj.Size = Big(2, 0) /\ obj.StorageClass = "STANDARD"
                        /\ PriceOf("STANDARD") = 23)
                      => value = Big(46, 0)
           ELSE value = obj.Size

\* A cost scan in us-east-1 has yielded 0.046 for an object of 2^31 bytes
\* and the cost of an object of 1.25 GiB of another class.
C8_Witness ==
    /\ s3_cost
    /\ location = "us-east-1"
    /\ scPc = "done"
    /\ \E i \in 1..Len(yielded) :
          AllObjects[i].Size = Big(2, 0) /\ yielded[i][2] = Big(46, 0)
    /\ \E i \in 1..Len(yielded) :
          AllObjects[i].Size = Big(1, 268435456) /\ yielded[i][2] = Big(5, 0)

\* "/".join(segments)
RECURSIVE JoinSlash(_)
JoinSlash(segs) ==
    IF Len(segs) = 1 THEN segs[1]
    ELSE segs[1] \o <<"/">> \o JoinSlash(Tail(segs))

RECURSIVE SumHi(_, _)
SumHi(objs, n) == IF n = 0 THEN 0 ELSE objs[n].Size.hi + SumHi(objs, n - 1)

RECURSIVE SumLo(_, _)
SumLo(objs, n) == IF n = 0 THEN 0 ELSE objs[n].Size.lo + SumLo(objs, n - 1)

ScenarioA ==
    /\ s3_prefix = S_data
    /\ AllObjects = << [Key |-> S_data \o S_a, Size |-> Big(0, 100),
                        StorageClass |-> "STANDARD"],
                       [Key |-> S_data \o S_sub_b, Size |-> Big(0, 50),
                        StorageClass |-> "GLACIER"] >>

\* C10: without --cost the scan yields one pair per listed object, in
\* listing order: the segments are the key without its first len(prefix)
\* characters, split at every "/", and the value is the size; the totals are
\* the number and the sum of the sizes of the objects yielded, all of them
\* at the end of the scan.  prefix data/ with data/a (100) and data/sub/b (50)
\* gives a (100), sub/b (50), total 150.
C10_ListingScan ==
    ~s3_cost =>
        /\ Len(yielded) <= Len(AllObjects)
        /\ total_objects = Len(yielded)
        /\ \A i \in 1..Len(yielded) :
              /\ yielded[i][2] = AllObjects[i].Size
              /\ Len(yielded[i][1]) >= 1
              /\ \A k \in 1..Len(yielded[i][1]) :
                    \A j \in 1..Len(yielded[i][1][k]) : yielded[i][1][k][j] # "/"
              /\ Len(AllObjects[i].Key) =
                    Len(s3_prefix) + Len(JoinSlash(yielded[i][1]))
              /\ SubSeq(AllObjects[i].Key, Len(s3_prefix) + 1, Len(AllObjects[i].Key))
                    = JoinSlash(yielded[i][1])
        /\ LET lo == SumLo(AllObjects, Len(yielded))
           IN total_size = Big(SumHi(AllObjects, Len(yielded)) + (lo \div GiB), lo % GiB)
        /\ scPc = "done" => Len(yielded) = Len(AllObjects)
        /\ (ScenarioA /\ scPc = "done") =>
              /\ yielded = << << <<S_a>>, Big(0, 100) >>,
                              << << <<"s", "u", "b">>, <<"b">> >>, Big(0, 50) >> >>
              /\ total_size = Big(0, 150)
              /\ total_objects = 2

\* The scan of data/a (100) and data/sub/b (50) under prefix data/, listed
\* on two pages, has ended.
C10_Witness ==
    /\ ~s3_cost
    /\ ScenarioA
    /\ Len(pages) = 2
    /\ scPc = "done"
    /\ total_size = Big(0, 150)

(***************************************************************************)
(* Properties of the scan of all buckets.                                  *)
(***************************************************************************)
\* The scan has ended, with or without an error.
ScanEnded == abPc \in {"done", "error"}

\* The profiles of the scan, in order.
Profiles == get_profiles(s3_profile)

\* The positions in Profiles of the profiles that list the bucket.
ProfilesListing(b) == { i \in 1..Len(Profiles) : b \in owned[Profiles[i]] }

Shared(b) == Cardinality(ProfilesListing(b)) >= 2

FirstProfileListing(b) ==
    Profiles[CHOOSE i \in ProfilesListing(b) : \A j \in ProfilesListing(b) : i <= j]

\* The buckets the profiles list.
Discovered == UNION { owned[Profiles[i]] : i \in 1..Len(Profiles) }

\* The region of a bucket.
RegionOf(b) == get_bucket_location(BucketLocation[b])

\* The buckets of a region that has no prices.
Unpriced == { b \in Discovered : RegionOf(b) \notin DOMAIN PricingData }

\* With --cost a bucket in a region without prices ends the scan.
PricesKnown == ~s3_cost \/ Unpriced = {}

\* The writes of _count/_size of a bucket.
SummaryWrites(b) == { k \in 1..Len(finalizeLog) : finalizeLog[k].bucket = b }

\* The turns of the final loop that added the bucket to the totals and
\* yielded it.
Emissions(b) == { k \in 1..Len(yielded) : yielded[k][1][1] = b }

StatsOf(b) == (CHOOSE e \in SeqToSet(stats) : e.bucket = b).d

InStats(b) == \E e \in SeqToSet(stats) : e.bucket = b

RECURSIVE SumYielded(_, _)
SumYielded(which, n) ==
    IF n = 0 THEN Zero ELSE BigAdd(yielded[n][2][which], SumYielded(which, n - 1))

TotalsAreTheEmitted ==
    /\ total_size = SumYielded(1, Len(yielded))
    /\ total_objects = SumYielded(2, Len(yielded))

\* The value of the first datapoint of the day asked for, 0 without one.
DayValue(points) ==
    IF \E k \in 1..Len(points) : points[k].day = TargetDay
    THEN points[CHOOSE k \in 1..Len(points) :
                   /\ points[k].day = TargetDay
                   /\ \A j \in 1..(k - 1) : points[j].day # TargetDay].value
    ELSE Zero

\* The (size, count) of a bucket by the datapoints CloudWatch holds for it.
RefValue(b, st) == DayValue(cwView[b][st])

PriceOfCw(region, i) == PricingData[region][S3_COST_CLASSES[i].desc]

RefSize(b) ==
    LET RECURSIVE Sum(_)
        Sum(i) ==
            IF i = 0 THEN Zero
            ELSE BigAdd(Sum(i - 1),
                        IF s3_cost
                        THEN Cost(RefValue(b, S3_COST_CLASSES[i].cw),
                                  PriceOfCw(RegionOf(b), i))
                        ELSE RefValue(b, S3_COST_CLASSES[i].cw))
    IN Sum(Len(S3_COST_CLASSES))

RefCount(b) == RefValue(b, "AllStorageTypes")

\* C5: when the scan has ended, a bucket listed under two or more profiles
\* had its _size/_count written exactly once, by the first profile that
\* lists it, was yielded at most once, and, having a size or a count, was
\* added to the totals exactly once.
C5_SharedBucketAddedOnce ==
    (ScanEnded /\ PricesKnown) =>
        /\ TotalsAreTheEmitted
        /\ \A b \in Discovered :
              Shared(b) =>
                /\ Cardinality(SummaryWrites(b)) = 1
                /\ \A k \in SummaryWrites(b) :
                      finalizeLog[k].profile = FirstProfileListing(b)
                /\ Cardinality(Emissions(b)) <= 1
                /\ (~BigIsZero(RefSize(b)) \/ ~BigIsZero(RefCount(b)))
                      => Cardinality(Emissions(b)) = 1

(***************************************************************************)
(* Properties of the metrics queries of a group.                           *)
(***************************************************************************)
\* The metrics asked for each bucket.
MetricNames ==
    { S3_COST_CLASSES[i].cw : i \in 1..Len(S3_COST_CLASSES) } \cup {"AllStorageTypes"}

\* The (profile, region) groups and their buckets.
Groups ==
    { <<Profiles[i], RegionOf(b)>> :
        <<i, b>> \in { t \in (1..Len(Profiles)) \X Discovered : t[2] \in owned[Profiles[t[1]]] } }

Members(g) == { b \in owned[g[1]] : RegionOf(b) = g[2] }

\* The places (call, position) of the queries sent for a group.
QueryPlaces(g) ==
    UNION { { <<c, i>> : i \in 1..Len(metricCalls[c].queries) } :
              c \in { c \in 1..Len(metricCalls) :
                        metricCalls[c].profile = g[1] /\ metricCalls[c].region = g[2] } }

PlacesOf(g, b, st) ==
    { pl \in QueryPlaces(g) :
        /\ metricCalls[pl[1]].queries[pl[2]].BucketName = b
        /\ metricCalls[pl[1]].queries[pl[2]].StorageType = st }

\* C11: no call of get_metric_data carries more than 100 queries; when the
\* scan has ended, every (bucket, metric) pair of every (profile, region)
\* group was asked for in exactly one call, under an id no other pair of
\* the group has, and stats holds for the pair the value of the pair's own
\* datapoints.
C11_MetricsBatching ==
    /\ \A c \in 1..Len(metricCalls) :
          Len(metricCalls[c].queries) >= 1 /\ Len(metricCalls[c].queries) <= 100
    /\ (ScanEnded /\ PricesKnown) =>
          \A g \in Groups :
            /\ \A b \in Members(g) : \A st \in MetricNames :
                  /\ Cardinality(PlacesOf(g, b, st)) = 1
                  /\ InStats(b)
                  /\ StatsOf(b)[st] = RefValue(b, st)
            /\ Cardinality({ metricCalls[pl[1]].queries[pl[2]].Id : pl \in QueryPlaces(g) })
                  = Cardinality(Members(g)) * Cardinality(MetricNames)

(***************************************************************************)
(* Properties of the discovery: the order in which the location lookups    *)
(* of a profile complete.                                                  *)
(***************************************************************************)
\* The (profile, region, bucket) triples held by buckets, one per name.
Grouped ==
    { <<buckets[t[1]].profile, buckets[t[1]].regions[t[2]].region,
        buckets[t[1]].regions[t[2]].names[t[3]]>> :
        t \in { t \in (1..Len(buckets)) \X (1..3) \X (1..3) :
                  /\ t[2] <= Len(buckets[t[1]].regions)
                  /\ t[3] <= Len(buckets[t[1]].regions[t[2]].names) } }

\* The buckets the scan has to yield.
RefEmitted == { b \in Discovered : ~BigIsZero(RefSize(b)) /\ ~BigIsZero(RefCount(b)) }

RECURSIVE RefSum(_, _)
RefSum(Of(_), set) ==
    IF set = {} THEN Zero
    ELSE LET b == CHOOSE b \in set : TRUE
         IN BigAdd(Of(b), RefSum(Of, set \ {b}))

\* C12: when the scan has ended, whatever the order in which the location
\* lookups completed, every bucket a profile lists is held under that
\* profile and the bucket's region, the yielded pairs are as a set those of
\* the buckets with a size and a count by CloudWatch's datapoints, and the
\* totals are their sums.
C12_CompletionOrderIndependent ==
    ScanEnded =>
        /\ Grouped = { <<Profiles[t[1]], RegionOf(t[2]), t[2]>> :
                         t \in { t \in (1..Len(Profiles)) \X Discovered :
                                   t[2] \in owned[Profiles[t[1]]] } }
        /\ PricesKnown =>
              /\ { yielded[k] : k \in 1..Len(yielded) } =
                    { << <<b, "">>, <<RefSize(b), RefCount(b)>> >> : b \in RefEmitted }
              /\ Len(yielded) = Cardinality(RefEmitted)
              /\ total_size = RefSum(RefSize, RefEmitted)
              /\ total_objects = RefSum(RefCount, RefEmitted)

====
